---------------------------- MODULE Spec2Model ----------------------------
(***************************************************************************)
(* vakt: the Guard decision engine (src/vakt/guard.py).                    *)
(*                                                                         *)
(* A call of Guard.is_allowed / Guard.is_allowed_check is modelled as a    *)
(* process that walks through the statements of guard.py, one action per   *)
(* statement (one per iteration for the two loops).  The collaborators the *)
(* Guard only holds references to (storage, checker, policies, rules) are  *)
(* modelled by what the Guard can observe of them: a value, or a raised    *)
(* exception.                                                              *)
(***************************************************************************)
EXTENDS Integers, Sequences, FiniteSets, TLC

VARIABLES
    storage,     \* Guard.storage: what find_for_inquiry does (guard.py:60)
    pc,          \* per call: the statement the call is at
    entry,       \* per call: the method the caller invoked
    inquiry,     \* per call: the argument `inquiry`
    policies,    \* per call: local `policies` (guard.py:83)
    filtered,    \* per call: local `filtered` (guard.py:106), built so far
    i,           \* per call: position of the comprehension in `policies`
    j,           \* per call: position of the for loop in `filtered`
    result,      \* per call: local `result` (guard.py:116)
    answer,      \* per call: local `answer` (guard.py:69, 86, 89)
    ret,         \* per call: what the caller got back
    calls,       \* per call: how often fits / satisfied / allow_access ran
    log,         \* records written to logging.getLogger('vakt.guard')
    audit_log,   \* records written to logging.getLogger('vakt.audit')
    ccr,         \* a direct call of the static check_context_restriction
    cond         \* a call of StringPairsEqualCondition.ok (string.py:20)

vars == <<storage, pc, entry, inquiry, policies, filtered, i, j, result,
          answer, ret, calls, log, audit_log, ccr, cond>>

(***************************************************************************)
(* Bounds of the model.                                                    *)
(***************************************************************************)
MaxPolicies == 2     \* longest candidate list storage returns
MaxCtxKeys  == 2     \* most entries of a policy's context mapping
MaxPairs    == 2     \* most elements of the list given to a condition
MaxPairLen  == 3     \* most members of one element of that list

Calls == {1, 2}      \* two calls on one Guard: in a row, or interleaved

(***************************************************************************)
(* vakt.effects                                                            *)
(***************************************************************************)
ALLOW_ACCESS == "allow"
DENY_ACCESS  == "deny"

(***************************************************************************)
(* Outcomes of a call into a collaborator: a truthy value, a falsy value,  *)
(* or an exception (a subclass of Exception).                              *)
(***************************************************************************)
T     == "true"
F     == "false"
Raise == "raise"

Keys       == {"ip", "owner", "role"}
BadPattern == "<(>"      \* a pattern the matcher cannot compile

(***************************************************************************)
(* Rules.  A rule is any object with satisfied(value, inquiry).            *)
(***************************************************************************)
RuleEq(v)   == [kind |-> "eq", equals |-> v]
RuleSubject == [kind |-> "subject", equals |-> ""]
RuleBroken  == [kind |-> "broken", equals |-> ""]
Rules       == {RuleEq("local"), RuleSubject, RuleBroken}

satisfied(rule, value, inq) ==
    CASE rule.kind = "eq"      -> IF value = rule.equals THEN T ELSE F
      [] rule.kind = "subject" -> IF value = inq.subject THEN T ELSE F
      [] rule.kind = "broken"  -> Raise

(***************************************************************************)
(* Policy.allow_access                                                     *)
(***************************************************************************)
allow_access(p) == p.effect = ALLOW_ACCESS

(***************************************************************************)
(* checker.fits(policy, field, what, inquiry)                              *)
(***************************************************************************)
fits(p, field, what, inq) ==
    IF BadPattern \in p[field] THEN Raise
    ELSE IF what \in p[field] THEN T ELSE F

(***************************************************************************)
(* Inquiry (guard.py:21-26): context is a mapping defined on some keys.    *)
(***************************************************************************)
NoContext == [k \in {} |-> ""]

Inquiry(resource, action, subject, context) ==
    [resource |-> resource, action |-> action,
     subject |-> subject, context |-> context]

Inquiries ==
    { Inquiry("doc", "get", "Max", NoContext),
      Inquiry("doc", "print", "Max", [k \in {"ip"} |-> "local"]),
      Inquiry("doc", "get", "Max",
              [k \in {"ip", "owner"} |->
                  IF k = "ip" THEN "remote" ELSE "Max"]) }

(***************************************************************************)
(* Guard.check_context_restriction (guard.py:134-149).                     *)
(* policy.context is walked in the mapping's order, here a sequence of     *)
(* <<key, rule>>.  The value is [out, rules, debug]: the outcome, how      *)
(* many rules were evaluated, and the debug records written.               *)
(***************************************************************************)
\* as ContextFrom, with a key missing from the inquiry's context skipped
RECURSIVE ContextFromSkipsMissing(_, _, _, _)
ContextFromSkipsMissing(context, inq, k, n) ==
    IF k > Len(context)
    THEN [out |-> T, rules |-> n, debug |-> <<>>]
    ELSE LET key  == context[k][1]
             rule == context[k][2]
         IN IF key \notin DOMAIN inq.context
            THEN ContextFromSkipsMissing(context, inq, k + 1, n)
            ELSE LET s == satisfied(rule, inq.context[key], inq)
                 IN CASE s = Raise -> [out |-> Raise, rules |-> n + 1,
                                       debug |-> <<>>]
                      [] s = F     -> [out |-> F, rules |-> n + 1,
                                       debug |-> <<>>]
                      [] s = T     ->
                           ContextFromSkipsMissing(context, inq, k + 1, n + 1)

RECURSIVE ContextFrom(_, _, _, _)
ContextFrom(context, inq, k, n) ==
    IF k > Len(context)
    THEN [out |-> T, rules |-> n, debug |-> <<>>]
    ELSE LET key  == context[k][1]
             rule == context[k][2]
         IN IF key \notin DOMAIN inq.context
            THEN [out |-> F, rules |-> n, debug |-> <<key>>]
            ELSE LET s == satisfied(rule, inq.context[key], inq)
                 IN CASE s = Raise -> [out |-> Raise, rules |-> n + 1,
                                       debug |-> <<>>]
                      [] s = F     -> [out |-> F, rules |-> n + 1,
                                       debug |-> <<>>]
                      [] s = T     -> ContextFrom(context, inq, k + 1, n + 1)

check_context_restriction(policy, inq) ==
    ContextFrom(policy.context, inq, 1, 0)

(***************************************************************************)
(* The condition of the comprehension at guard.py:106-110 for one policy:  *)
(* a chain of `and`, left to right, that stops at the first falsy operand  *)
(* and lets an exception out.  The value is [out, fits, rules, debug].     *)
(***************************************************************************)
FitsInquiry(p, inq) ==
    LET a == fits(p, "actions", inq.action, inq)
        s == fits(p, "subjects", inq.subject, inq)
        r == fits(p, "resources", inq.resource, inq)
        c == check_context_restriction(p, inq)
        stop(o, n) == [out |-> o, fits |-> n, rules |-> 0, debug |-> <<>>]
    IN  CASE a # T -> stop(a, 1)
          [] a = T /\ s # T -> stop(s, 2)
          [] a = T /\ s = T /\ r # T -> stop(r, 3)
          [] a = T /\ s = T /\ r = T ->
                [out |-> c.out, fits |-> 3, rules |-> c.rules,
                 debug |-> c.debug]

(***************************************************************************)
(* Policies.  A policy is what the Guard reads of it: effect, the three    *)
(* pattern collections and the context mapping.                            *)
(***************************************************************************)
Effects == {ALLOW_ACCESS, DENY_ACCESS}

Policy(effect, actions, subjects, resources, context) ==
    [effect |-> effect, actions |-> actions, subjects |-> subjects,
     resources |-> resources, context |-> context]

Shapes ==
    { <<{"get", "print"}, {"Max"}, {"doc"}, <<>>>>,
      <<{"get"}, {"Max"}, {"doc"}, <<>>>>,
      <<{"get", "print"}, {"Peter"}, {"doc"}, <<>>>>,
      <<{"get", "print"}, {"Max"}, {BadPattern}, <<>>>>,
      <<{"get", "print"}, {"Max"}, {"doc"}, << <<"ip", RuleEq("local")>> >> >>,
      <<{"get", "print"}, {"Max"}, {"doc"}, << <<"owner", RuleBroken>> >> >> }

PolicyPool ==
    { Policy(e, s[1], s[2], s[3], s[4]) : e \in Effects, s \in Shapes }

ConcPool ==
    { Policy(ALLOW_ACCESS, {"get"}, {"Max"}, {"doc"}, <<>>),
      Policy(DENY_ACCESS, {"get", "print"}, {"Max"}, {"doc"},
             << <<"ip", RuleEq("local")>> >>),
      Policy(ALLOW_ACCESS, {"get", "print"}, {"Max"}, {"doc"},
             << <<"owner", RuleBroken>> >>) }

SeqsUpTo(S, n) == UNION { [1 .. m -> S] : m \in 0 .. n }

(***************************************************************************)
(* Storage.find_for_inquiry(inquiry, checker): returns a list of           *)
(* candidates (it need not match exactly), returns None, or raises.        *)
(***************************************************************************)
Found(list)  == [does |-> "return", value |-> [none |-> FALSE, list |-> list]]
FoundNone    == [does |-> "return", value |-> [none |-> TRUE, list |-> <<>>]]
FindFails    == [does |-> "raise", value |-> [none |-> TRUE, list |-> <<>>]]

Storages(pool) ==
    { Found(l) : l \in SeqsUpTo(pool, MaxPolicies) } \cup {FoundNone, FindFails}

find_for_inquiry(st, inq) == st

\* `not policies` (guard.py:98): None and the empty list are falsy
Falsy(pol) == pol.none \/ pol.list = <<>>

(***************************************************************************)
(* Log records.                                                            *)
(***************************************************************************)
MsgAllowed   == "Incoming Inquiry was allowed"
MsgRejected  == "Incoming Inquiry was rejected"
MsgException == "Unexpected exception occurred while checking Inquiry %s"
MsgNoKey     == "No key '%s' found in Inquiry context"
MsgNoPolicies == "Denied: no potential policies for inquiry were found"
MsgDenied    == "Denied: one of matching policies has deny effect"
MsgAllAllow  == "Allowed: all matching policies have allow effect"

LogRecord(c, level, msg) == [call |-> c, level |-> level, msg |-> msg]

AuditRecord(c, msg, effect, inq, pols, deciders) ==
    [call |-> c, msg |-> msg, effect |-> effect, inquiry |-> inq,
     policies |-> pols, deciders |-> deciders]

RECURSIVE DebugRecords(_, _)
DebugRecords(c, keys) ==
    IF keys = <<>> THEN <<>>
    ELSE <<LogRecord(c, "debug", MsgNoKey)>> \o DebugRecords(c, Tail(keys))

(***************************************************************************)
(* The state before any call.                                              *)
(***************************************************************************)
NoPolicies == [none |-> TRUE, list |-> <<>>]
NoCalls    == [fits |-> 0, rules |-> 0, allow_access |-> 0]
NoCcr      == [state |-> "unused",
               policy |-> Policy(ALLOW_ACCESS, {}, {}, {}, <<>>),
               inquiry |-> Inquiry("", "", "", NoContext),
               out |-> F, rules |-> 0]

\* no call of a condition
NoCond == [state |-> "unused", what |-> [kind |-> "none", items |-> <<>>],
           out |-> F]

InitLocals ==
    /\ pc = [c \in Calls |-> "idle"]
    /\ entry = [c \in Calls |-> "is_allowed"]
    /\ inquiry = [c \in Calls |-> Inquiry("", "", "", NoContext)]
    /\ policies = [c \in Calls |-> NoPolicies]
    /\ filtered = [c \in Calls |-> <<>>]
    /\ i = [c \in Calls |-> 1]
    /\ j = [c \in Calls |-> 1]
    /\ result = [c \in Calls |-> FALSE]
    /\ answer = [c \in Calls |-> FALSE]
    /\ ret = [c \in Calls |-> FALSE]
    /\ calls = [c \in Calls |-> NoCalls]
    /\ log = <<>>
    /\ audit_log = <<>>

Init ==
    /\ storage \in Storages(PolicyPool)
    /\ InitLocals
    /\ ccr = NoCcr
    /\ cond = NoCond

(***************************************************************************)
(* The calls.                                                              *)
(***************************************************************************)
Entries  == {"is_allowed", "is_allowed_check"}
Finished == {"done", "escaped"}

\* try ... except Exception (guard.py:82, 87): where an exception raised
\* at `site` inside is_allowed_check takes the call
OnRaiseEscapes(site) ==
    IF site = "find_for_inquiry" THEN "except" ELSE "escaped"

OnRaise(site) == "except"

\* result = False (guard.py:116)
InitialResultTrue == TRUE

InitialResult == FALSE

Locals(c) == <<pc[c], entry[c], inquiry[c], policies[c], filtered[c], i[c],
               j[c], result[c], answer[c], ret[c], calls[c]>>

\* the three audit events (99-102, 120-123, 128-131)
NoPoliciesEvent(c) ==
    AuditRecord(c, MsgNoPolicies, DENY_ACCESS, inquiry[c], <<>>, <<>>)

\* as DeniedEvent, with the filtered list passed as 'policies'
DeniedEventFiltered(c, p) ==
    AuditRecord(c, MsgDenied, DENY_ACCESS, inquiry[c], filtered[c], <<p>>)

DeniedEvent(c, p) ==
    AuditRecord(c, MsgDenied, DENY_ACCESS, inquiry[c], policies[c].list, <<p>>)

AllowedEvent(c) ==
    AuditRecord(c, MsgAllAllow, ALLOW_ACCESS, inquiry[c], policies[c].list,
                filtered[c])

\* the caller invokes a method of the Guard with an inquiry
Invoke(c, e, inq) ==
    /\ pc[c] = "idle"
    /\ pc' = [pc EXCEPT ![c] = "find"]
    /\ entry' = [entry EXCEPT ![c] = e]
    /\ inquiry' = [inquiry EXCEPT ![c] = inq]
    /\ UNCHANGED <<storage, policies, filtered, i, j, result, answer, ret,
                   calls, log, audit_log, ccr, cond>>

\* calls in a row: a call starts when the one before it has returned
Call(c) ==
    /\ \A d \in Calls : d < c => pc[d] \in Finished
    /\ \E e \in Entries, inq \in Inquiries : Invoke(c, e, inq)

\* interleaved calls of is_allowed: a call starts at any time
CallConc(c) ==
    \E inq \in Inquiries : Invoke(c, "is_allowed", inq)

\* policies = self.storage.find_for_inquiry(inquiry, self.checker)  (83)
FindForInquiry(c) ==
    /\ pc[c] = "find"
    /\ LET found == find_for_inquiry(storage, inquiry[c])
       IN IF found.does = "raise"
          THEN /\ pc' = [pc EXCEPT ![c] = OnRaise("find_for_inquiry")]
               /\ UNCHANGED policies
          ELSE /\ pc' = [pc EXCEPT ![c] = "check"]
               /\ policies' = [policies EXCEPT ![c] = found.value]
    /\ UNCHANGED <<storage, entry, inquiry, filtered, i, j, result, answer,
                   ret, calls, log, audit_log, ccr, cond>>

\* as NoPotentialPolicies, with `if policies is None` for `if not policies`
NoPotentialPoliciesNoneOnly(c) ==
    /\ pc[c] = "check"
    /\ IF policies[c].none
       THEN /\ audit_log' = Append(audit_log, NoPoliciesEvent(c))
            /\ answer' = [answer EXCEPT ![c] = FALSE]
            /\ pc' = [pc EXCEPT ![c] = "return"]
            /\ UNCHANGED <<filtered, i, j, result>>
       ELSE /\ filtered' = [filtered EXCEPT ![c] = <<>>]
            /\ i' = [i EXCEPT ![c] = 1]
            /\ IF policies[c].list = <<>>
               THEN /\ pc' = [pc EXCEPT ![c] = "loop"]
                    /\ result' = [result EXCEPT ![c] = FALSE]
                    /\ j' = [j EXCEPT ![c] = 1]
               ELSE /\ pc' = [pc EXCEPT ![c] = "filter"]
                    /\ UNCHANGED <<j, result>>
            /\ UNCHANGED <<audit_log, answer>>
    /\ UNCHANGED <<storage, entry, inquiry, policies, ret, calls, log, ccr, cond>>

\* if not policies: audit, return False  (98-103)
NoPotentialPolicies(c) ==
    /\ pc[c] = "check"
    /\ IF Falsy(policies[c])
       THEN /\ audit_log' = Append(audit_log, NoPoliciesEvent(c))
            /\ answer' = [answer EXCEPT ![c] = FALSE]
            /\ pc' = [pc EXCEPT ![c] = "return"]
            /\ UNCHANGED <<filtered, i>>
       ELSE /\ pc' = [pc EXCEPT ![c] = "filter"]
            /\ filtered' = [filtered EXCEPT ![c] = <<>>]
            /\ i' = [i EXCEPT ![c] = 1]
            /\ UNCHANGED <<audit_log, answer>>
    /\ UNCHANGED <<storage, entry, inquiry, policies, j, result, ret, calls,
                   log, ccr, cond>>

\* as Filter, with the comprehension's result written back into the list
\* find_for_inquiry returned (policies[:] = ...), which the storage holds
FilterInPlace(c) ==
    /\ pc[c] = "filter"
    /\ LET p == policies[c].list[i[c]]
           r == FitsInquiry(p, inquiry[c])
       IN /\ calls' = [calls EXCEPT ![c].fits = @ + r.fits,
                                    ![c].rules = @ + r.rules]
          /\ log' = log \o DebugRecords(c, r.debug)
          /\ IF r.out = Raise
             THEN /\ pc' = [pc EXCEPT ![c] = OnRaise("check_policies_allow")]
                  /\ UNCHANGED <<filtered, i, j, result, storage>>
             ELSE /\ filtered' = [filtered EXCEPT ![c] =
                          IF r.out = T THEN Append(@, p) ELSE @]
                  /\ i' = [i EXCEPT ![c] = @ + 1]
                  /\ IF i[c] = Len(policies[c].list)
                     THEN /\ pc' = [pc EXCEPT ![c] = "loop"]
                          /\ result' = [result EXCEPT ![c] = InitialResult]
                          /\ j' = [j EXCEPT ![c] = 1]
                          /\ storage' = Found(filtered'[c])
                     ELSE UNCHANGED <<pc, result, j, storage>>
    /\ UNCHANGED <<entry, inquiry, policies, answer, ret, audit_log, ccr, cond>>

\* as Filter, with `filtered` kept on the Guard, one list for all calls
FilterShared(c) ==
    /\ pc[c] = "filter"
    /\ LET p == policies[c].list[i[c]]
           r == FitsInquiry(p, inquiry[c])
       IN /\ calls' = [calls EXCEPT ![c].fits = @ + r.fits,
                                    ![c].rules = @ + r.rules]
          /\ log' = log \o DebugRecords(c, r.debug)
          /\ IF r.out = Raise
             THEN /\ pc' = [pc EXCEPT ![c] = OnRaise("check_policies_allow")]
                  /\ UNCHANGED <<filtered, i, j, result>>
             ELSE /\ filtered' = [d \in Calls |->
                          IF r.out = T THEN Append(filtered[d], p)
                          ELSE filtered[d]]
                  /\ i' = [i EXCEPT ![c] = @ + 1]
                  /\ IF i[c] = Len(policies[c].list)
                     THEN /\ pc' = [pc EXCEPT ![c] = "loop"]
                          /\ result' = [result EXCEPT ![c] = InitialResult]
                          /\ j' = [j EXCEPT ![c] = 1]
                     ELSE UNCHANGED <<pc, result, j>>
    /\ UNCHANGED <<storage, entry, inquiry, policies, answer, ret, audit_log,
                   ccr, cond>>

\* filtered = [p for p in policies if ...]: one policy  (106-110),
\* and after the last one, result = False  (116)
Filter(c) ==
    /\ pc[c] = "filter"
    /\ LET p == policies[c].list[i[c]]
           r == FitsInquiry(p, inquiry[c])
       IN /\ calls' = [calls EXCEPT ![c].fits = @ + r.fits,
                                    ![c].rules = @ + r.rules]
          /\ log' = log \o DebugRecords(c, r.debug)
          /\ IF r.out = Raise
             THEN /\ pc' = [pc EXCEPT ![c] = OnRaise("check_policies_allow")]
                  /\ UNCHANGED <<filtered, i, j, result>>
             ELSE /\ filtered' = [filtered EXCEPT ![c] =
                          IF r.out = T THEN Append(@, p) ELSE @]
                  /\ i' = [i EXCEPT ![c] = @ + 1]
                  /\ IF i[c] = Len(policies[c].list)
                     THEN /\ pc' = [pc EXCEPT ![c] = "loop"]
                          /\ result' = [result EXCEPT ![c] = InitialResult]
                          /\ j' = [j EXCEPT ![c] = 1]
                     ELSE UNCHANGED <<pc, result, j>>
    /\ UNCHANGED <<storage, entry, inquiry, policies, answer, ret, audit_log,
                   ccr, cond>>

\* as Loop, with the deny branch setting result = False and going on
LoopNoReturn(c) ==
    /\ pc[c] = "loop"
    /\ j[c] <= Len(filtered[c])
    /\ calls' = [calls EXCEPT ![c].allow_access = @ + 1]
    /\ result' = [result EXCEPT ![c] = allow_access(filtered[c][j[c]])]
    /\ j' = [j EXCEPT ![c] = @ + 1]
    /\ UNCHANGED <<storage, pc, entry, inquiry, policies, filtered, i, answer,
                   ret, log, audit_log, ccr, cond>>

\* as Loop, with the first policy of the filtered list deciding either way
LoopFirstDecides(c) ==
    /\ pc[c] = "loop"
    /\ j[c] <= Len(filtered[c])
    /\ LET p == filtered[c][j[c]]
       IN /\ calls' = [calls EXCEPT ![c].allow_access = @ + 1]
          /\ audit_log' = Append(audit_log,
                IF allow_access(p) THEN AllowedEvent(c) ELSE DeniedEvent(c, p))
          /\ answer' = [answer EXCEPT ![c] = allow_access(p)]
          /\ pc' = [pc EXCEPT ![c] = "return"]
    /\ UNCHANGED <<storage, entry, inquiry, policies, filtered, i, j, result,
                   ret, log, ccr, cond>>

\* for p in filtered: if not p.allow_access(): audit, return False
\*                    else: result = True  (117-126)
Loop(c) ==
    /\ pc[c] = "loop"
    /\ j[c] <= Len(filtered[c])
    /\ LET p == filtered[c][j[c]]
       IN /\ calls' = [calls EXCEPT ![c].allow_access = @ + 1]
          /\ IF ~ allow_access(p)
             THEN /\ audit_log' = Append(audit_log, DeniedEvent(c, p))
                  /\ answer' = [answer EXCEPT ![c] = FALSE]
                  /\ pc' = [pc EXCEPT ![c] = "return"]
                  /\ UNCHANGED <<result, j>>
             ELSE /\ result' = [result EXCEPT ![c] = TRUE]
                  /\ j' = [j EXCEPT ![c] = @ + 1]
                  /\ UNCHANGED <<audit_log, answer, pc>>
    /\ UNCHANGED <<storage, entry, inquiry, policies, filtered, i, ret, log,
                   ccr, cond>>

\* after the loop: audit 'Allowed', return result  (128-132)
AllAllow(c) ==
    /\ pc[c] = "loop"
    /\ j[c] > Len(filtered[c])
    /\ audit_log' = Append(audit_log, AllowedEvent(c))
    /\ answer' = [answer EXCEPT ![c] = result[c]]
    /\ pc' = [pc EXCEPT ![c] = "return"]
    /\ UNCHANGED <<storage, entry, inquiry, policies, filtered, i, j, result,
                   ret, calls, log, ccr, cond>>

\* as Except, with the failure also written to the audit log
ExceptAudits(c) ==
    /\ pc[c] = "except"
    /\ log' = Append(log, LogRecord(c, "exception", MsgException))
    /\ audit_log' = Append(audit_log,
           AuditRecord(c, MsgException, DENY_ACCESS, inquiry[c], <<>>, <<>>))
    /\ answer' = [answer EXCEPT ![c] = FALSE]
    /\ pc' = [pc EXCEPT ![c] = "return"]
    /\ UNCHANGED <<storage, entry, inquiry, policies, filtered, i, j, result,
                   ret, calls, ccr, cond>>

\* except Exception: log.exception(...); answer = False  (87-89)
Except(c) ==
    /\ pc[c] = "except"
    /\ log' = Append(log, LogRecord(c, "exception", MsgException))
    /\ answer' = [answer EXCEPT ![c] = FALSE]
    /\ pc' = [pc EXCEPT ![c] = "return"]
    /\ UNCHANGED <<storage, entry, inquiry, policies, filtered, i, j, result,
                   ret, calls, audit_log, ccr, cond>>

\* return answer  (90): to the caller, or back into is_allowed  (69)
Return(c) ==
    /\ pc[c] = "return"
    /\ IF entry[c] = "is_allowed_check"
       THEN /\ ret' = [ret EXCEPT ![c] = answer[c]]
            /\ pc' = [pc EXCEPT ![c] = "done"]
       ELSE /\ pc' = [pc EXCEPT ![c] = "outcome"]
            /\ UNCHANGED ret
    /\ UNCHANGED <<storage, entry, inquiry, policies, filtered, i, j, result,
                   answer, calls, log, audit_log, ccr, cond>>

\* the message of the outcome record  (70-73)
OutcomeMessageSwapped(a) == IF a THEN MsgRejected ELSE MsgAllowed

OutcomeMessage(a) == IF a THEN MsgAllowed ELSE MsgRejected

\* if answer: log.info(allowed) else: log.info(rejected); return answer (70-74)
Outcome(c) ==
    /\ pc[c] = "outcome"
    /\ log' = Append(log, LogRecord(c, "info", OutcomeMessage(answer[c])))
    /\ ret' = [ret EXCEPT ![c] = answer[c]]
    /\ pc' = [pc EXCEPT ![c] = "done"]
    /\ UNCHANGED <<storage, entry, inquiry, policies, filtered, i, j, result,
                   answer, calls, audit_log, ccr, cond>>

Step(c) ==
    \/ FindForInquiry(c)
    \/ NoPotentialPolicies(c)
    \/ Filter(c)
    \/ Loop(c)
    \/ AllAllow(c)
    \/ Except(c)
    \/ Return(c)
    \/ Outcome(c)

Next == \E c \in Calls : Call(c) \/ Step(c)

Spec == Init /\ [][Next]_vars

(***************************************************************************)
(* Interleaved calls of is_allowed on one Guard.                           *)
(***************************************************************************)
InitConc ==
    /\ storage \in Storages(ConcPool)
    /\ InitLocals
    /\ ccr = NoCcr
    /\ cond = NoCond

NextConc == \E c \in Calls : CallConc(c) \/ Step(c)

SpecConc == InitConc /\ [][NextConc]_vars

(***************************************************************************)
(* check_context_restriction called on its own (it is a staticmethod),     *)
(* and is_allowed_check on a storage that holds the same policy.           *)
(***************************************************************************)
Pairs == Keys \X Rules

Contexts ==
    { cx \in SeqsUpTo(Pairs, MaxCtxKeys) :
        \A m, n \in DOMAIN cx : m # n => cx[m][1] # cx[n][1] }

CtxValues == {"local", "Max"}

InquiryContexts ==
    UNION { [ks -> CtxValues] : ks \in SUBSET Keys }

CheckContextRestriction ==
    /\ ccr.state = "called"
    /\ LET r == check_context_restriction(ccr.policy, ccr.inquiry)
       IN /\ ccr' = [ccr EXCEPT !.state = IF r.out = Raise THEN "raised"
                                          ELSE "returned",
                                !.out = r.out, !.rules = r.rules]
          /\ log' = log \o DebugRecords(0, r.debug)
    /\ UNCHANGED <<storage, pc, entry, inquiry, policies, filtered, i, j,
                   result, answer, ret, calls, audit_log, cond>>

CallCtx(c) ==
    /\ c = 1
    /\ \E e \in Entries : Invoke(c, e, ccr.inquiry)

InitCtx ==
    /\ \E cx \in Contexts, icx \in InquiryContexts :
         /\ ccr = [state |-> "called",
                   policy |-> Policy(ALLOW_ACCESS, {"get"}, {"Max"}, {"doc"}, cx),
                   inquiry |-> Inquiry("doc", "get", "Max", icx),
                   out |-> F, rules |-> 0]
         /\ storage = Found(<<ccr.policy>>)
    /\ InitLocals
    /\ cond = NoCond

NextCtx ==
    \/ CheckContextRestriction
    \/ \E c \in Calls : CallCtx(c) \/ Step(c)

SpecCtx == InitCtx /\ [][NextCtx]_vars

(***************************************************************************)
(* What the properties below speak of.                                     *)
(***************************************************************************)
Returned(c) == pc[c] = "done"

\* the candidates find_for_inquiry hands to a call
Candidates == storage.value.list

\* a policy for which the three fits and the context check all give true
Passes(p, inq) ==
    /\ fits(p, "actions", inq.action, inq) = T
    /\ fits(p, "subjects", inq.subject, inq) = T
    /\ fits(p, "resources", inq.resource, inq) = T
    /\ check_context_restriction(p, inq).out = T

\* the filtered set of a request: the candidates that pass, in order
FilteredSet(inq) ==
    LET Test(p) == Passes(p, inq)
    IN SelectSeq(Candidates, Test)

\* some step of the decision raises for this request
Fails(inq) ==
    \/ storage.does = "raise"
    \/ \E k \in DOMAIN Candidates : FitsInquiry(Candidates[k], inq).out = Raise

RecordsOf(c, l) == { n \in DOMAIN l : l[n].call = c }

ExceptionRecords(c) == { n \in RecordsOf(c, log) : log[n].level = "exception" }
InfoRecords(c)      == { n \in RecordsOf(c, log) : log[n].level = "info" }
AuditEvents(c)      == RecordsOf(c, audit_log)

HasDeny(seq)  == \E k \in DOMAIN seq : ~ allow_access(seq[k])
AllAllows(seq) == \A k \in DOMAIN seq : allow_access(seq[k])

(***************************************************************************)
(* C1.  is_allowed and is_allowed_check never raise: no exception reaches  *)
(* the caller, and a call in which find_for_inquiry, fits or a rule's      *)
(* satisfied raised returns false and has written exactly one              *)
(* exception-level record.                                                 *)
(***************************************************************************)
C1_NeverRaises ==
    \A c \in Calls :
        /\ pc[c] # "escaped"
        /\ (Returned(c) /\ Fails(inquiry[c])) =>
              /\ ret[c] = FALSE
              /\ Cardinality(ExceptionRecords(c)) = 1
        /\ (Returned(c) /\ ~ Fails(inquiry[c])) => ExceptionRecords(c) = {}

\* a call of is_allowed_check has returned after a rule raised
C1_Witness ==
    \E c \in Calls :
        /\ Returned(c) /\ entry[c] = "is_allowed_check"
        /\ storage.does = "return"
        /\ \E k \in DOMAIN Candidates :
              check_context_restriction(Candidates[k], inquiry[c]).out = Raise
        /\ calls[c].rules > 0
        /\ ret[c] = FALSE

(***************************************************************************)
(* C2.  Deny dominance: when the filtered set (the candidates that pass    *)
(* the three fits and the context check) holds a deny policy, the call     *)
(* returns false, however many allow policies it holds and wherever the    *)
(* deny policy stands.                                                     *)
(***************************************************************************)
C2_DenyDominance ==
    \A c \in Calls :
        (Returned(c) /\ HasDeny(FilteredSet(inquiry[c]))) => ret[c] = FALSE

\* a deny policy that stands last in the filtered set, after an allow policy
C2_Witness ==
    \E c \in Calls :
        /\ Returned(c) /\ ~ Fails(inquiry[c])
        /\ Len(filtered[c]) = 2
        /\ allow_access(filtered[c][1]) /\ ~ allow_access(filtered[c][2])
        /\ filtered[c] = FilteredSet(inquiry[c])
        /\ ret[c] = FALSE

(***************************************************************************)
(* C3.  When no step raises, the call returns true exactly when the        *)
(* filtered set is not empty and all its policies have allow effect.       *)
(***************************************************************************)
C3_AllowIffAllAllow ==
    \A c \in Calls :
        (Returned(c) /\ ~ Fails(inquiry[c])) =>
            LET fs == FilteredSet(inquiry[c])
            IN ret[c] = (Len(fs) > 0 /\ AllAllows(fs))

\* allowed by one allow policy, with a deny candidate that does not pass
C3_Witness ==
    \E c \in Calls :
        /\ Returned(c) /\ ~ Fails(inquiry[c])
        /\ Len(FilteredSet(inquiry[c])) = 1
        /\ HasDeny(Candidates)
        /\ ret[c] = TRUE

(***************************************************************************)
(* C4.  When find_for_inquiry returns an empty list or None, the call      *)
(* returns false, its only audit event is 'no potential policies' with     *)
(* effect deny and empty policies and deciders, and neither fits nor a     *)
(* rule was called.                                                        *)
(***************************************************************************)
C4_NoCandidates ==
    \A c \in Calls :
        (Returned(c) /\ storage.does = "return" /\ Falsy(storage.value)) =>
            /\ ret[c] = FALSE
            /\ Cardinality(AuditEvents(c)) = 1
            /\ \A n \in AuditEvents(c) :
                  /\ audit_log[n].msg = MsgNoPolicies
                  /\ audit_log[n].effect = DENY_ACCESS
                  /\ audit_log[n].policies = <<>>
                  /\ audit_log[n].deciders = <<>>
            /\ calls[c] = NoCalls

\* is_allowed has returned for a storage that gives the empty list
C4_Witness ==
    \E c \in Calls :
        /\ Returned(c) /\ entry[c] = "is_allowed"
        /\ storage = Found(<<>>)
        /\ AuditEvents(c) # {}

(***************************************************************************)
(* C5.  check_context_restriction returns true exactly when every key of   *)
(* the policy's context is in the inquiry's context and every rule is      *)
(* satisfied; it returns false at the first key that is missing or whose   *)
(* rule is not satisfied, without evaluating a later rule; it returns true *)
(* for an empty context; and a policy with a key the inquiry lacks is      *)
(* never in the filtered list.                                             *)
(***************************************************************************)
Present(cx, inq, k)  == cx[k][1] \in DOMAIN inq.context
HoldsAt(cx, inq, k)  ==
    Present(cx, inq, k) /\ satisfied(cx[k][2], inq.context[cx[k][1]], inq) = T
BreaksAt(cx, inq, k) ==
    \/ ~ Present(cx, inq, k)
    \/ satisfied(cx[k][2], inq.context[cx[k][1]], inq) = F

C5_ContextRestriction ==
    LET cx  == ccr.policy.context
        inq == ccr.inquiry
    IN /\ ccr.state = "returned" =>
             (ccr.out = T <=> \A k \in DOMAIN cx : HoldsAt(cx, inq, k))
       /\ ccr.state = "raised" => ~ \A k \in DOMAIN cx : HoldsAt(cx, inq, k)
       /\ ccr.state \in {"returned", "raised"} =>
             \A k \in DOMAIN cx :
                 (BreaksAt(cx, inq, k) /\ \A m \in 1 .. k - 1 : HoldsAt(cx, inq, m))
                 => /\ ccr.state = "returned"
                    /\ ccr.out = F
                    /\ ccr.rules = IF Present(cx, inq, k) THEN k ELSE k - 1
       /\ (ccr.state \in {"returned", "raised"} /\ cx = <<>>) =>
             ccr.state = "returned" /\ ccr.out = T
       /\ \A c \in Calls : \A n \in DOMAIN filtered[c] :
             \A k \in DOMAIN filtered[c][n].context :
                 Present(filtered[c][n].context, inquiry[c], k)

\* false at the second key, which is missing, after the first rule held,
\* and the same policy kept out of the filtered list of a call
C5_Witness ==
    LET cx  == ccr.policy.context
        inq == ccr.inquiry
    IN /\ ccr.state = "returned" /\ ccr.out = F /\ ccr.rules = 1
       /\ Len(cx) = 2
       /\ HoldsAt(cx, inq, 1) /\ ~ Present(cx, inq, 2)
       /\ Returned(1) /\ filtered[1] = <<>> /\ calls[1].rules = 1

FirstDeny(seq) ==
    CHOOSE k \in DOMAIN seq :
        ~ allow_access(seq[k]) /\ \A m \in 1 .. k - 1 : allow_access(seq[m])

C7_AuditPayload ==
    \A c \in Calls : \A n \in AuditEvents(c) :
        LET e  == audit_log[n]
            fs == FilteredSet(inquiry[c])
        IN /\ e.msg = MsgDenied =>
                 /\ e.policies = Candidates
                 /\ HasDeny(fs)
                 /\ e.deciders = <<fs[FirstDeny(fs)]>>
                 /\ calls[c].allow_access = FirstDeny(fs)
           /\ e.msg = MsgAllAllow =>
                 /\ e.policies = Candidates
                 /\ e.deciders = fs

\* one call denied by a deny policy that stands before an allow policy in
\* the filtered list, another allowed by a filtered list shorter than the
\* candidate list
C7_Witness ==
    \E c, d \in Calls :
        /\ Returned(c) /\ Returned(d)
        /\ \E n \in AuditEvents(c) :
              /\ audit_log[n].msg = MsgDenied
              /\ calls[c].allow_access < Len(filtered[c])
        /\ \E n \in AuditEvents(d) :
              /\ audit_log[n].msg = MsgAllAllow
              /\ audit_log[n].deciders # <<>>
              /\ Len(audit_log[n].deciders) < Len(audit_log[n].policies)

(***************************************************************************)
(* C8.  A call in which a step raised goes to the deny decision with one   *)
(* exception record and emits no audit event: no call has both an audit    *)
(* event and an exception-level record.                                    *)
(***************************************************************************)
C8_NoAuditOnException ==
    \A c \in Calls :
        /\ ~ (AuditEvents(c) # {} /\ ExceptionRecords(c) # {})
        /\ (pc[c] \in {"return", "outcome", "done"} /\ Fails(inquiry[c])) =>
              /\ AuditEvents(c) = {}
              /\ Cardinality(ExceptionRecords(c)) = 1
              /\ answer[c] = FALSE

\* the second candidate raised after the first had entered the filtered list
C8_Witness ==
    \E c \in Calls :
        /\ Returned(c)
        /\ Len(filtered[c]) = 1 /\ i[c] = 2 /\ Len(Candidates) = 2
        /\ FitsInquiry(Candidates[2], inquiry[c]).out = Raise
        /\ AuditEvents(c) = {}
        /\ Cardinality(ExceptionRecords(c)) = 1

(***************************************************************************)
(* C9.  Idempotence: two calls of is_allowed in a row with the same        *)
(* request return the same boolean, and no step of a call changes the      *)
(* storage (the Guard's state and the policies it holds) or the request.   *)
(***************************************************************************)
C9_Idempotent ==
    /\ [](\A c, d \in Calls :
            ( /\ Returned(c) /\ Returned(d)
              /\ entry[c] = "is_allowed" /\ entry[d] = "is_allowed"
              /\ inquiry[c] = inquiry[d] ) => ret[c] = ret[d])
    /\ [][ /\ storage' = storage
           /\ \A c \in Calls : pc[c] # "idle" => inquiry'[c] = inquiry[c] ]_vars

\* the same request allowed twice in a row, by a filtered list shorter than
\* the candidate list
C9_Witness ==
    /\ Returned(1) /\ Returned(2)
    /\ entry[1] = "is_allowed" /\ entry[2] = "is_allowed"
    /\ inquiry[1] = inquiry[2]
    /\ ret[1] = TRUE /\ ret[2] = TRUE
    /\ Len(FilteredSet(inquiry[1])) < Len(Candidates)

(***************************************************************************)
(* C10.  Interleaved calls of is_allowed on one Guard are independent:     *)
(* each returns what it returns when run alone, a step changes the local   *)
(* state of one call only, never the storage, and only appends to the      *)
(* logs.                                                                   *)
(***************************************************************************)
Alone(inq) ==
    /\ ~ Fails(inq)
    /\ LET fs == FilteredSet(inq) IN Len(fs) > 0 /\ AllAllows(fs)

C10_Independent ==
    /\ [](\A c \in Calls : Returned(c) => ret[c] = Alone(inquiry[c]))
    /\ [][ /\ storage' = storage
           /\ \A c, d \in Calls :
                 (c # d /\ Locals(c)' # Locals(c)) => Locals(d)' = Locals(d)
           /\ Len(log') >= Len(log)
           /\ SubSeq(log', 1, Len(log)) = log
           /\ Len(audit_log') >= Len(audit_log)
           /\ SubSeq(audit_log', 1, Len(audit_log)) = audit_log ]_vars

\* two calls that overlapped (call 2 audited first, call 1 logged its
\* outcome first) and returned different answers
C10_Witness ==
    /\ Returned(1) /\ Returned(2)
    /\ ret[1] # ret[2]
    /\ Len(audit_log) = 2
    /\ audit_log[1].call = 2 /\ audit_log[2].call = 1
    /\ \E m, n \in DOMAIN log :
          /\ m < n
          /\ log[m].level = "info" /\ log[m].call = 1
          /\ log[n].level = "info" /\ log[n].call = 2

(***************************************************************************)
(* C11.  Every audit event of a call has the effect the call returns: an   *)
(* event with effect allow only in a call that returns true, an event with *)
(* effect deny only in a call that returns false.                          *)
(***************************************************************************)
C11_AuditEffectIsDecision ==
    \A c \in Calls :
        Returned(c) =>
            \A n \in AuditEvents(c) :
                /\ audit_log[n].effect = ALLOW_ACCESS => ret[c] = TRUE
                /\ audit_log[n].effect = DENY_ACCESS => ret[c] = FALSE

(***************************************************************************)
(* The order of the candidates.  find_for_inquiry promises no order: here  *)
(* each call is handed the stored candidates in some order, and the second *)
(* call asks what the first asked.                                         *)
(***************************************************************************)
OrderPool ==
    { Policy(ALLOW_ACCESS, {"get", "print"}, {"Max"}, {"doc"}, <<>>),
      Policy(ALLOW_ACCESS, {"get"}, {"Max"}, {"doc"}, <<>>),
      Policy(DENY_ACCESS, {"get", "print"}, {"Max"}, {"doc"}, <<>>),
      Policy(DENY_ACCESS, {"get", "print"}, {"Max"}, {"doc"},
             << <<"ip", RuleEq("local")>> >>),
      Policy(ALLOW_ACCESS, {"get", "print"}, {"Max"}, {"doc"},
             << <<"owner", RuleBroken>> >>) }

Orderings(list) ==
    { [n \in DOMAIN list |-> list[f[n]]] :
        f \in { g \in [DOMAIN list -> DOMAIN list] :
                  \A m, n \in DOMAIN list : m # n => g[m] # g[n] } }

\* policies = self.storage.find_for_inquiry(inquiry, self.checker)  (83),
\* the candidates coming in any order
FindInSomeOrder(c) ==
    /\ pc[c] = "find"
    /\ LET found == find_for_inquiry(storage, inquiry[c])
       IN IF found.does = "raise"
          THEN /\ pc' = [pc EXCEPT ![c] = OnRaise("find_for_inquiry")]
               /\ UNCHANGED policies
          ELSE /\ pc' = [pc EXCEPT ![c] = "check"]
               /\ \E l \in Orderings(found.value.list) :
                     policies' = [policies EXCEPT ![c] =
                                     [none |-> found.value.none, list |-> l]]
    /\ UNCHANGED <<storage, entry, inquiry, filtered, i, j, result, answer,
                   ret, calls, log, audit_log, ccr, cond>>

CallAgain(c) ==
    /\ \A d \in Calls : d < c => pc[d] \in Finished
    /\ \E inq \in Inquiries :
          /\ \A d \in Calls : d < c => inq = inquiry[d]
          /\ Invoke(c, "is_allowed_check", inq)

InitOrder ==
    /\ storage \in Storages(OrderPool)
    /\ InitLocals
    /\ ccr = NoCcr
    /\ cond = NoCond

NextOrder ==
    \E c \in Calls :
        \/ CallAgain(c)
        \/ FindInSomeOrder(c)
        \/ NoPotentialPolicies(c)
        \/ Filter(c)
        \/ Loop(c)
        \/ AllAllow(c)
        \/ Except(c)
        \/ Return(c)

SpecOrder == InitOrder /\ [][NextOrder]_vars

(***************************************************************************)
(* C12.  The boolean is_allowed_check returns does not depend on the order *)
(* of the candidates: two calls with the same request whose candidate      *)
(* lists are permutations of each other return the same, also when a       *)
(* field match or a rule raises; the decider of the deny event may differ. *)
(***************************************************************************)
C12_OrderIndependent ==
    \A c, d \in Calls :
        ( /\ Returned(c) /\ Returned(d)
          /\ inquiry[c] = inquiry[d]
          /\ policies[d].none = policies[c].none
          /\ policies[d].list \in Orderings(policies[c].list) )
        => ret[c] = ret[d]

\* the same request denied twice, the candidates in two orders and the
\* deny events naming different deciders
C12_Witness ==
    /\ Returned(1) /\ Returned(2)
    /\ inquiry[1] = inquiry[2]
    /\ policies[1].list # policies[2].list
    /\ policies[2].list \in Orderings(policies[1].list)
    /\ ret[1] = FALSE /\ ret[2] = FALSE
    /\ \E m \in AuditEvents(1), n \in AuditEvents(2) :
          /\ audit_log[m].msg = MsgDenied /\ audit_log[n].msg = MsgDenied
          /\ audit_log[m].deciders # audit_log[n].deciders

(***************************************************************************)
(* StringPairsEqualCondition (src/vakt/conditions/string.py:16-30).        *)
(*                                                                         *)
(* Python values, three levels deep.  A member is a str, an int or None.   *)
(* An element of the list is a list, a tuple or a set of members, a str    *)
(* (its members are its characters), an int or None.  `what` is a list of  *)
(* elements, or a str, an int or None.                                     *)
(***************************************************************************)
Member(kind, val) == [kind |-> kind, val |-> val]
Members == { Member("str", "a"), Member("str", "b"), Member("int", "1"),
             Member("none", "") }

Element(kind, items) == [kind |-> kind, items |-> items]
Chars == { Member("str", "a"), Member("str", "b") }
Elements ==
    { Element(k, ms) : k \in {"list", "tuple"},
                       ms \in SeqsUpTo(Members, MaxPairLen) }
    \cup { Element("str", ms) : ms \in SeqsUpTo(Chars, MaxPairLen) }
    \cup { Element("set", ms) :
             ms \in { <<>>, <<Member("str", "a")>>,
                      <<Member("str", "a"), Member("str", "b")>> } }
    \cup { Element("int", <<>>), Element("none", <<>>) }

Whats ==
    { Element("list", es) : es \in SeqsUpTo(Elements, MaxPairs) }
    \cup { Element(k, <<>>) : k \in {"tuple", "str", "int", "none"} }

\* isinstance(x, list), isinstance(x, str)
isinstance(x, type) == x.kind = type

\* len(pair): TypeError for an object without __len__
Sized(pair) == pair.kind \in {"list", "tuple", "str", "set"}

\* pair[0], pair[1]: TypeError for a set
Subscriptable(pair) == pair.kind \in {"list", "tuple", "str"}

\* pair[0] != pair[1]: values of different types are not equal
NotEqual(x, y) == x.kind # y.kind \/ x.val # y.val

\* the body of the for loop (string.py:24-29) for one element:
\* F is an early return False, T goes on to the next element
OkPair(pair) ==
    IF ~ Sized(pair) THEN Raise
    ELSE IF Len(pair.items) # 2 THEN F
    ELSE IF ~ Subscriptable(pair) THEN Raise
    ELSE IF ~ isinstance(pair.items[1], "str")
            /\ ~ isinstance(pair.items[2], "str") THEN F
    ELSE IF NotEqual(pair.items[1], pair.items[2]) THEN F
    ELSE T

RECURSIVE OkFrom(_, _)
OkFrom(what, k) ==
    IF k > Len(what.items) THEN T
    ELSE LET o == OkPair(what.items[k])
         IN IF o = T THEN OkFrom(what, k + 1) ELSE o

\* StringPairsEqualCondition.ok(what, request)  (string.py:20-30)
ok(what) ==
    IF ~ isinstance(what, "list") THEN F ELSE OkFrom(what, 1)

CallOk ==
    /\ cond.state = "called"
    /\ LET o == ok(cond.what)
       IN cond' = [cond EXCEPT !.state = IF o = Raise THEN "raised"
                                         ELSE "returned",
                               !.out = o]
    /\ UNCHANGED <<storage, pc, entry, inquiry, policies, filtered, i, j,
                   result, answer, ret, calls, log, audit_log, ccr>>

InitCond ==
    /\ \E w \in Whats : cond = [state |-> "called", what |-> w, out |-> F]
    /\ storage = FoundNone
    /\ InitLocals
    /\ ccr = NoCcr

NextCond == CallOk

SpecCond == InitCond /\ [][NextCond]_vars

(***************************************************************************)
(* C13.  ok is total and exact: for every value it returns, never raises,  *)
(* and returns true exactly when the value is a list whose elements all    *)
(* have length 2 and consist of two strings equal to each other.           *)
(***************************************************************************)
PairOfEqualStrings(pair) ==
    /\ pair.kind \in {"list", "tuple", "str"}
    /\ Len(pair.items) = 2
    /\ pair.items[1].kind = "str" /\ pair.items[2].kind = "str"
    /\ pair.items[1].val = pair.items[2].val

C13_TotalAndExact ==
    cond.state \in {"returned", "raised"} =>
        /\ cond.state = "returned"
        /\ cond.out = T <=>
              /\ cond.what.kind = "list"
              /\ \A k \in DOMAIN cond.what.items :
                    PairOfEqualStrings(cond.what.items[k])

=============================================================================
